---------------------------- MODULE Spec2Model ----------------------------
(***************************************************************************)
(* A model of src/main.rs of smehlhoff/metars: the row decoder            *)
(* Metar::parse_metars with the unit and label helpers it calls, the      *)
(* header stripping of Metar::read_metar_file, and the pipeline of main.  *)
(*                                                                         *)
(* Text is a sequence of one-character strings.  An Option<T> is a        *)
(* sequence of length at most one: <<>> is None and <<x>> is Some(x).     *)
(* An f64 is the exact rational [n, d] in lowest terms (d > 0); the       *)
(* bounds keep every product away from the ties and the magnitudes where  *)
(* binary rounding would differ from exact arithmetic.                    *)
(***************************************************************************)
EXTENDS Integers, Sequences, FiniteSets, TLC

VARIABLES
    df,        \* parse_metars: the DataFrame, a sequence of rows of cells
    i,         \* parse_metars: the row loop's index (rows already visited)
    metars,    \* parse_metars: the Vec<Metar> built so far
    pc,        \* parse_metars: "loop", "done" (returned) or "panic"
    contents,  \* read_metar_file: the file's text, as its split('\n') pieces
    payload,   \* read_metar_file: the file as the CSV reader is given it
    rpc,       \* read_metar_file: "read", "reader" (handed over) or "panic"
    env,       \* main: what the network, the archive and the file are
    mpc,       \* main: the step about to run, or "exit"
    steps,     \* main: the steps that have started, in order
    files,     \* main: the staging files present on disk
    written,   \* main: the staging files ever written
    result,    \* main: "running", "ok", "err" (Err returned) or "panic"
    printed    \* main: the records printed

vars == <<df, i, metars, pc, contents, payload, rpc,
          env, mpc, steps, files, written, result, printed>>

parseVars == <<df, i, metars, pc>>
readVars == <<contents, payload, rpc>>
mainVars == <<env, mpc, steps, files, written, result, printed>>

----------------------------------------------------------------------------
(* Options                                                                 *)

None == <<>>
Some(x) == <<x>>
IsSome(o) == Len(o) = 1
IsNone(o) == Len(o) = 0
Unwrap(o) == o[1]

----------------------------------------------------------------------------
(* Text                                                                    *)

Digits == <<"0", "1", "2", "3", "4", "5", "6", "7", "8", "9">>

IsDigit(c) == \E k \in 1..10 : Digits[k] = c

DigitVal(c) == (CHOOSE k \in 1..10 : Digits[k] = c) - 1

\* Whether pat occurs in s at offset k (0-based).
OccursAt(s, pat, k) ==
    /\ k + Len(pat) <= Len(s)
    /\ \A j \in 1..Len(pat) : s[k + j] = pat[j]

\* str::contains
Contains(s, pat) == \E k \in 0..Len(s) : OccursAt(s, pat, k)

\* str::starts_with
StartsWith(s, pat) == OccursAt(s, pat, 0)

RECURSIVE SplitFrom(_, _, _)
\* The pieces of s between occurrences of the character sep, cur being the
\* piece under construction: "a  b" gives "a", "", "b".
SplitFrom(s, sep, cur) ==
    IF s = <<>> THEN <<cur>>
    ELSE IF Head(s) = sep THEN <<cur>> \o SplitFrom(Tail(s), sep, <<>>)
    ELSE SplitFrom(Tail(s), sep, Append(cur, Head(s)))

\* str::split(char)
Split(s, sep) == SplitFrom(s, sep, <<>>)

RECURSIVE Join(_, _)
\* [&str]::join(sep): the pieces with sep between neighbours.
Join(pieces, sep) ==
    IF pieces = <<>> THEN <<>>
    ELSE IF Len(pieces) = 1 THEN pieces[1]
    ELSE pieces[1] \o sep \o Join(Tail(pieces), sep)

\* Iterator::position: the 0-based index of the first piece equal to x.
Position(pieces, x) ==
    IF \E k \in 1..Len(pieces) : pieces[k] = x
    THEN Some((CHOOSE k \in 1..Len(pieces) :
                  /\ pieces[k] = x
                  /\ \A j \in 1..(k - 1) : pieces[j] # x) - 1)
    ELSE None

\* str::replace(c, ""): every occurrence of the character c removed.
RemoveAll(s, c) == SelectSeq(s, LAMBDA x : x # c)

RECURSIVE IntStr(_)
NatStr(n) == IF n < 10 THEN <<Digits[n + 1]>>
             ELSE IntStr(n \div 10) \o <<Digits[(n % 10) + 1]>>
\* The decimal text of an integer, as the feed writes it.
IntStr(n) == IF n < 0 THEN <<"-">> \o NatStr(-n) ELSE NatStr(n)

----------------------------------------------------------------------------
(* Numbers                                                                 *)

I32Max == 2147483647
I32Min == (-2147483647) - 1

RECURSIVE AccI32(_, _, _)
\* The digit loop of i32::from_str: checked multiply by ten, then checked
\* add (or subtract, for a negative number); any overflow or any character
\* that is not a digit is an Err.
AccI32(s, acc, neg) ==
    IF s = <<>> THEN Some(acc)
    ELSE IF ~IsDigit(Head(s)) THEN None
    ELSE LET v == DigitVal(Head(s)) IN
         IF neg
         THEN IF acc < (I32Min + v + 9) \div 10 THEN None
              ELSE AccI32(Tail(s), acc * 10 - v, neg)
         ELSE IF acc > (I32Max - v) \div 10 THEN None
              ELSE AccI32(Tail(s), acc * 10 + v, neg)

\* str::parse::<i32>(): an optional sign and at least one digit.
ParseI32(s) ==
    IF s = <<>> THEN None
    ELSE IF Head(s) \in {"+", "-"}
         THEN IF Len(s) = 1 THEN None
              ELSE AccI32(Tail(s), 0, Head(s) = "-")
         ELSE AccI32(s, 0, FALSE)

RECURSIVE Gcd(_, _)
Gcd(a, b) == IF b = 0 THEN a ELSE Gcd(b, a % b)

Abs(x) == IF x < 0 THEN -x ELSE x

\* The f64 n/d, in lowest terms.
Rat(n, d) == LET g == Gcd(Abs(n), d) IN [n |-> n \div g, d |-> d \div g]

FInt(k) == [n |-> k, d |-> 1]
FMul(a, b) == LET g1 == Gcd(Abs(a.n), b.d)
                  g2 == Gcd(Abs(b.n), a.d)
              IN  [n |-> (a.n \div g1) * (b.n \div g2),
                   d |-> (a.d \div g2) * (b.d \div g1)]
FDiv(a, b) == IF b.n > 0 THEN FMul(a, [n |-> b.d, d |-> b.n])
              ELSE FMul(a, [n |-> -b.d, d |-> -b.n])
FAdd(a, b) == Rat(a.n * b.d + b.n * a.d, a.d * b.d)

\* f64::floor: towards minus infinity.
Floor(a) == a.n \div a.d

\* f64::round: to the nearest integer, a tie away from zero.
Round(a) == IF a.n >= 0 THEN (2 * a.n + a.d) \div (2 * a.d)
            ELSE -(((2 * (-a.n)) + a.d) \div (2 * a.d))

RECURSIVE Pow10(_)
Pow10(k) == IF k = 0 THEN 1 ELSE 10 * Pow10(k - 1)

RECURSIVE DigitsVal(_)
\* The value of a run of digits (the empty run is 0).
DigitsVal(s) == IF s = <<>> THEN 0
                ELSE DigitsVal(SubSeq(s, 1, Len(s) - 1)) * 10 + DigitVal(s[Len(s)])

AllDigits(s) == \A k \in 1..Len(s) : IsDigit(s[k])

\* The unsigned decimal number "int.frac" or "int": digits on at least one
\* side of the point, nothing else.
ParseDecimal(s) ==
    LET pieces == Split(s, ".") IN
    IF Len(pieces) > 2 THEN None
    ELSE LET ip == pieces[1]
             fp == IF Len(pieces) = 2 THEN pieces[2] ELSE <<>>
         IN  IF AllDigits(ip) /\ AllDigits(fp) /\ Len(ip) + Len(fp) > 0
             THEN Some(Rat(DigitsVal(ip) * Pow10(Len(fp)) + DigitsVal(fp),
                           Pow10(Len(fp))))
             ELSE None

\* str::parse::<f64>() on decimal text: an optional sign, then a decimal
\* number.  (Exponents and the words inf and nan do not occur in the cells
\* of this model.)
ParseF64(s) ==
    IF s = <<>> THEN None
    ELSE IF Head(s) \in {"+", "-"}
         THEN LET m == ParseDecimal(Tail(s)) IN
              IF IsNone(m) THEN None
              ELSE IF Head(s) = "-"
                   THEN Some([n |-> -(Unwrap(m).n), d |-> Unwrap(m).d])
                   ELSE m
         ELSE ParseDecimal(s)

----------------------------------------------------------------------------
(* Cells and rows                                                          *)

\* polars AnyValue, as parse_metars uses it: Null or a string.
Null == [null |-> TRUE, s |-> <<>>]
Str(s) == [null |-> FALSE, s |-> s]

\* AnyValue::is_null
is_null(c) == c.null

\* AnyValue::str_value: the text of a string cell; Null reads as "null".
str_value(c) == IF c.null THEN <<"n", "u", "l", "l">> ELSE c.s

\* The last column parse_metars indexes: row[43], the elevation.
MaxCol == 43

\* row[k], k counted from 0 as in the source.
Col(row, k) == row[k + 1]

----------------------------------------------------------------------------
(* enum Temperature                                                        *)

Celsius(v) == [unit |-> "Celsius", val |-> v]
Fahrenheit(v) == [unit |-> "Fahrenheit", val |-> v]

\* Temperature::to_fahrenheit: val.mul_add(1.8, 32.0)
to_fahrenheit(t) ==
    IF IsNone(t.val) THEN None
    ELSE IF t.unit = "Celsius"
         THEN Some(FAdd(FMul(Unwrap(t.val), Rat(18, 10)), FInt(32)))
         ELSE t.val

----------------------------------------------------------------------------
(* enum WindDirection                                                      *)

Degrees(v) == [kind |-> "Degrees", val |-> v]
Variable(v) == [kind |-> "Variable", val |-> v]

directions == <<"N", "NNE", "NE", "ENE", "E", "ESE", "SE", "SSE", "S",
                "SSW", "SW", "WSW", "W", "WNW", "NW", "NNW", "N">>

\* `x as usize` for an integral f64: a negative value saturates to 0.
AsUsize(x) == IF x < 0 THEN 0 ELSE x

CardinalIndexTrunc(val) == AsUsize(Floor(FDiv(FInt(val), Rat(225, 10))))

\* (f64::from(val) / 22.5).round() as usize
CardinalIndex(val) == AsUsize(Round(FDiv(FInt(val), Rat(225, 10))))

\* directions[index] with index out of the table's bounds: the thread
\* panics.
CardinalPanics(wd) ==
    /\ wd.kind = "Degrees"
    /\ IsSome(wd.val)
    /\ Unwrap(wd.val) # 0
    /\ CardinalIndex(Unwrap(wd.val)) >= Len(directions)

\* WindDirection::to_cardinal_direction, where it does not panic.
to_cardinal_direction(wd) ==
    IF wd.kind = "Degrees"
    THEN IF IsNone(wd.val) THEN None
         ELSE IF Unwrap(wd.val) = 0 THEN None
         ELSE Some(directions[CardinalIndex(Unwrap(wd.val)) + 1])
    ELSE Some("Variable")

----------------------------------------------------------------------------
(* enum Wind                                                               *)

Knots(v) == [unit |-> "Knots", val |-> v]
Mph(v) == [unit |-> "Mph", val |-> v]

KnotsToMphRounded(val) ==
    Rat(Round(FMul(FMul(val, Rat(115078, 100000)), FInt(100))), 100)

\* let result = val * 1.15078; (result * 100.00).floor() / 100.0
KnotsToMph(val) ==
    Rat(Floor(FMul(FMul(val, Rat(115078, 100000)), FInt(100))), 100)

\* Wind::to_mph
to_mph(w) ==
    IF IsNone(w.val) THEN None
    ELSE IF w.unit = "Knots" THEN Some(KnotsToMph(Unwrap(w.val)))
    ELSE w.val

----------------------------------------------------------------------------
(* struct Cloud                                                            *)

\* Cloud::sky_cover_label: the label of the layer's cover code.
sky_cover_label(cloud) ==
    LET label ==
          IF IsNone(cloud.sky_cover) THEN None
          ELSE LET val == Unwrap(cloud.sky_cover) IN
               IF val \in {<<"C", "L", "R">>, <<"S", "K", "C">>} THEN Some("Clear")
               ELSE IF val = <<"F", "E", "W">> THEN Some("Few")
               ELSE IF val = <<"S", "C", "T">> THEN Some("Scattered")
               ELSE IF val = <<"B", "K", "N">> THEN Some("Broken")
               ELSE IF val = <<"O", "V", "C">> THEN Some("Overcast")
               ELSE IF val = <<"O", "V", "X">> THEN Some("Obscured")
               ELSE Some("")
    IN  [cloud EXCEPT !.sky_cover_label = label]

----------------------------------------------------------------------------
(* enum Elevation                                                          *)

Meters(v) == [unit |-> "Meters", val |-> v]
Feet(v) == [unit |-> "Feet", val |-> v]

\* Elevation::to_feet: (val * 3.28084).round()
to_feet(e) ==
    IF IsNone(e.val) THEN None
    ELSE IF e.unit = "Meters"
         THEN Some(FInt(Round(FMul(Unwrap(e.val), Rat(328084, 100000)))))
         ELSE e.val

----------------------------------------------------------------------------
(* Metar::parse_metars: the fields of one row                              *)

\* The shape of the feed's timestamps, 2024-01-01T00:00:00Z, the one shape
\* of those chrono's DateTime<Utc> parser takes that the cells of this
\* model have: "d" stands for a digit, any other character for itself.
TimestampShape == <<"d", "d", "d", "d", "-", "d", "d", "-", "d", "d", "T",
                    "d", "d", ":", "d", "d", ":", "d", "d", "Z">>

\* str::parse::<DateTime<Utc>>(), an instant being named by its text.
ParseDateTime(s) ==
    IF /\ Len(s) = Len(TimestampShape)
       /\ \A k \in 1..Len(s) :
             IF TimestampShape[k] = "d" THEN IsDigit(s[k])
             ELSE s[k] = TimestampShape[k]
    THEN Some(s)
    ELSE None

\* The parse-or-absent pattern of the f64 fields: a null cell or a cell
\* that does not parse is None.
F64Cell(c) == IF is_null(c) THEN None ELSE ParseF64(str_value(c))

AcceptedAnyK(station_id) == Contains(station_id, <<"K">>)

\* station_id.starts_with('K')
Accepted(station_id) == StartsWith(station_id, <<"K">>)

\* wind_dir_degrees
WindDirDegrees(c) ==
    IF is_null(c) THEN Degrees(None)
    ELSE IF str_value(c) = <<"V", "R", "B">> THEN Variable(Some(<<"V", "R", "B">>))
    ELSE Degrees(ParseI32(str_value(c)))

\* visibility_statute_mi
Visibility(c) ==
    IF is_null(c) THEN None
    ELSE ParseF64(RemoveAll(str_value(c), "+"))

SkipLayerEither(sky_cover, cloud_base) == IsNone(sky_cover) \/ IsNone(cloud_base)

\* sky_cover.is_none() && cloud_base.is_none()
SkipLayer(sky_cover, cloud_base) == IsNone(sky_cover) /\ IsNone(cloud_base)

RECURSIVE CloudLoop(_, _, _)
\* for i in (22..=28).step_by(2): the layers pushed from column c on.
CloudLoop(row, c, clouds) ==
    IF c > 28 THEN clouds
    ELSE LET sky_cover == IF is_null(Col(row, c)) THEN None
                          ELSE Some(str_value(Col(row, c)))
             cloud_base == IF is_null(Col(row, c + 1)) THEN None
                           ELSE ParseI32(str_value(Col(row, c + 1)))
         IN  IF SkipLayer(sky_cover, cloud_base)
             THEN CloudLoop(row, c + 2, clouds)
             ELSE CloudLoop(row, c + 2,
                      Append(clouds,
                             sky_cover_label([sky_cover |-> sky_cover,
                                              cloud_base_ft_agl |-> cloud_base,
                                              sky_cover_label |-> None])))

\* Option<String> of a text cell
TextCell(c) == IF is_null(c) THEN None ELSE Some(str_value(c))

ElevationMNoSentinel(c) == Meters(F64Cell(c))

\* elevation_m: 9999 is the feed's "not reported"
ElevationM(c) ==
    IF is_null(c) THEN Meters(None)
    ELSE LET val == ParseF64(str_value(c)) IN
         IF IsNone(val) THEN Meters(None)
         ELSE IF Unwrap(val) = FInt(9999) THEN Meters(None)
         ELSE Meters(val)

RMK == <<"R", "M", "K">>

\* remarks: the pieces after the first piece "RMK" of the text split at
\* each space, joined with spaces
Remarks(c) ==
    IF is_null(c) THEN None
    ELSE IF Contains(str_value(c), RMK)
         THEN LET remarks == Split(str_value(c), " ")
                  index == Position(remarks, RMK)
              IN  IF IsNone(index) THEN None
                  ELSE Some(Join(SubSeq(remarks, Unwrap(index) + 2, Len(remarks)),
                                 <<" ">>))
         ELSE None

\* The Metar built from an accepted row of the full width.
DecodeRow(row) ==
    LET temp_c == Celsius(F64Cell(Col(row, 5)))
        dewpoint_c == Celsius(F64Cell(Col(row, 6)))
        wind_dir_degrees == WindDirDegrees(Col(row, 7))
        wind_speed_kt == Knots(F64Cell(Col(row, 8)))
        wind_gust_kt == Knots(F64Cell(Col(row, 9)))
        elevation_m == ElevationM(Col(row, 43))
    IN  [raw_text |-> str_value(Col(row, 0)),
         station_id |-> str_value(Col(row, 1)),
         observation_time |-> IF is_null(Col(row, 2)) THEN None
                              ELSE ParseDateTime(str_value(Col(row, 2))),
         lat |-> ParseF64(str_value(Col(row, 3))),
         lon |-> ParseF64(str_value(Col(row, 4))),
         temp_c |-> temp_c,
         temp_f |-> Fahrenheit(to_fahrenheit(temp_c)),
         dewpoint_c |-> dewpoint_c,
         dewpoint_f |-> Fahrenheit(to_fahrenheit(dewpoint_c)),
         wind_dir_degrees |-> wind_dir_degrees,
         wind_dir_cardinal |-> to_cardinal_direction(wind_dir_degrees),
         wind_speed_kt |-> wind_speed_kt,
         wind_speed_mph |-> Mph(to_mph(wind_speed_kt)),
         wind_gust_kt |-> wind_gust_kt,
         wind_gust_mph |-> Mph(to_mph(wind_gust_kt)),
         visibility_statute_mi |-> Visibility(Col(row, 10)),
         clouds |-> CloudLoop(row, 22, <<>>),
         altim_in_hg |-> F64Cell(Col(row, 11)),
         wx_string |-> TextCell(Col(row, 21)),
         flight_category |-> TextCell(Col(row, 30)),
         report_type |-> TextCell(Col(row, 42)),
         elevation_m |-> elevation_m,
         elevation_ft |-> Feet(to_feet(elevation_m)),
         remarks |-> Remarks(Col(row, 0))]

\* Whether the loop body panics on this row: row[1] of a row with fewer
\* than two cells, or, for an accepted row, a column index beyond the row's
\* width or a cardinal index beyond the table.
RowPanics(row) ==
    IF Len(row) < 2 THEN TRUE
    ELSE IF ~Accepted(str_value(Col(row, 1))) THEN FALSE
    ELSE IF Len(row) <= MaxCol THEN TRUE
    ELSE CardinalPanics(WindDirDegrees(Col(row, 7)))

----------------------------------------------------------------------------
(* The inputs of parse_metars                                              *)

MaxRows == 3          \* rows of a frame of whole rows
MaxHeading == 400     \* the largest wind heading of a cell
MaxNegHeading == 30   \* the most negative wind heading of a cell
MaxKnots == 60        \* the largest wind speed or gust of a cell
MaxElev == 150        \* the largest elevation of a cell, but for ...
MaxDepth == 50        \* ... the elevations below sea level, and ...
ElevWindow == 5       \* ... those this close to the sentinel 9999
MaxTextLen == 5       \* the length of the enumerated report texts
MaxVisLen == 3        \* the length of the enumerated visibility cells

\* Every text of at most n characters of the alphabet A.
Texts(A, n) == UNION {[1..k -> A] : k \in 0..n}

\* Every sequence of at most n members of S.
SeqUpTo(S, n) == UNION {[1..k -> S] : k \in 0..n}

T_KSJC == <<"K", "S", "J", "C">>
T_PHNL == <<"P", "H", "N", "L">>
T_VRB == <<"V", "R", "B">>
T_BKN == <<"B", "K", "N">>
T_FEW == <<"F", "E", "W">>
T_abc == <<"a", "b", "c">>
T_AO2 == <<"A", "O", "2">>
T_SLP123 == <<"S", "L", "P", "1", "2", "3">>
T_METAR == <<"M", "E", "T", "A", "R">>
T_Time == <<"0", "1", "0", "0", "0", "0", "Z">>
T_Stamp == <<"2", "0", "2", "4", "-", "0", "1", "-", "0", "1", "T",
             "0", "0", ":", "0", "0", ":", "0", "0", "Z">>

\* "METAR KSJC 010000Z RMK AO2 SLP123"
T_Report == Join(<<T_METAR, T_KSJC, T_Time, RMK, T_AO2, T_SLP123>>, <<" ">>)

\* row with its column k (from 0) holding the cell c.
With(row, k, c) == [row EXCEPT ![k + 1] = c]

\* A row of the feed for station KSJC with every decoded column filled.
FullRow ==
    [k \in 1..(MaxCol + 1) |->
        CASE k = 1 -> Str(T_Report)
          [] k = 2 -> Str(T_KSJC)
          [] k = 3 -> Str(T_Stamp)
          [] k = 4 -> Str(<<"3", "7", ".", "3", "6">>)
          [] k = 5 -> Str(<<"-", "1", "2", "1", ".", "9", "2">>)
          [] k = 6 -> Str(<<"1", "5", ".", "0">>)
          [] k = 7 -> Str(<<"9", ".", "4">>)
          [] k = 8 -> Str(<<"9", "0">>)
          [] k = 9 -> Str(<<"1", "0">>)
          [] k = 10 -> Str(<<"1", "8">>)
          [] k = 11 -> Str(<<"1", "0", "+">>)
          [] k = 12 -> Str(<<"2", "9", ".", "9", "2">>)
          [] k = 23 -> Str(T_FEW)
          [] k = 24 -> Str(<<"2", "5", "0", "0">>)
          [] k = 25 -> Str(T_BKN)
          [] k = 31 -> Str(<<"V", "F", "R">>)
          [] k = 43 -> Str(T_METAR)
          [] k = 44 -> Str(<<"1", "8">>)
          [] OTHER -> Null]

\* The station cells of the rows of a frame of several rows, each row
\* with a report text of its own.
Stations == <<Str(T_KSJC), Str(T_PHNL), Null, Str(<<"K">>),
              Str(<<"k", "s", "f", "o">>), Str(<<"A", "K">>), Str(<<>>),
              Str(<<"K", "L", "A", "X">>)>>

StationRow(k) ==
    With(With(FullRow, 1, Stations[k]), 0,
         Str(str_value(Stations[k]) \o <<" ">> \o IntStr(k)))

\* Whole rows that differ in station; the last has a heading off the table.
SmallRows ==
    {StationRow(k) : k \in 1..Len(Stations)}
        \cup {With(StationRow(1), 7, Str(IntStr(MaxHeading)))}

HeadingCells ==
    {Str(IntStr(h)) : h \in (-MaxNegHeading)..MaxHeading}
        \cup {Null, Str(T_VRB), Str(<<"v", "r", "b">>), Str(T_abc), Str(<<>>),
              Str(<<"9", "0", ".", "0">>), Str(<<"+", "9", "0">>), Str(<<"-">>),
              Str(<<"9", "9", "9", "9", "9", "9", "9", "9", "9", "9">>)}

KnotCells ==
    {Str(IntStr(k)) : k \in 0..MaxKnots}
        \cup {Null, Str(T_abc), Str(<<>>), Str(<<"7", ".", "5">>),
              Str(<<"1", "2", ".", "2", "5">>), Str(<<"-", "5">>)}

Sentinel == 9999

ElevCells ==
    {Str(IntStr(m)) : m \in (-MaxDepth)..MaxElev}
        \cup {Str(IntStr(Sentinel + k)) : k \in (-ElevWindow)..ElevWindow}
        \cup {Null, Str(T_abc), Str(<<>>), Str(<<"1", "2", ".", "5">>),
              Str(<<"-", "0", ".", "5">>), Str(<<"9", "9", "9", "9", ".", "0">>),
              Str(<<"9", "9", "9", "9", ".", "0", "0">>)}

CoverCells == {Null, Str(T_BKN), Str(<<"C", "L", "R">>), Str(<<"S", "K", "C">>),
               Str(T_FEW), Str(<<"S", "C", "T">>), Str(<<"O", "V", "C">>),
               Str(<<"O", "V", "X">>), Str(<<"b", "k", "n">>), Str(<<>>)}

BaseCells == {Null, Str(<<"2", "5", "0", "0">>), Str(<<"-", "1">>), Str(T_abc),
              Str(<<"2", "5", "0", "0", ".", "0">>), Str(<<>>)}

\* FullRow with its four cloud pairs emptied.
NoClouds ==
    [k \in 1..(MaxCol + 1) |-> IF k \in 23..30 THEN Null ELSE FullRow[k]]

\* Rows with one cloud pair drawn from every cover and base, and rows with
\* all four pairs drawn from three covers and three bases.
CloudRows ==
    {With(With(NoClouds, c, cover), c + 1, base) :
        c \in {22, 24, 26, 28}, cover \in CoverCells, base \in BaseCells}
    \cup
    {[k \in 1..(MaxCol + 1) |->
        IF k \in 23..30
        THEN IF k % 2 = 1 THEN cv[(k - 21) \div 2] ELSE bs[(k - 22) \div 2]
        ELSE FullRow[k]] :
        cv \in [1..4 -> {Null, Str(T_BKN), Str(<<"X">>)}],
        bs \in [1..4 -> {Null, Str(<<"1", "5">>), Str(<<"a">>)}]}

TextCells ==
    {Str(t) : t \in Texts({"R", "M", "K", "A", " "}, MaxTextLen)}
        \cup {Null, Str(T_Report),
              Str(Join(<<T_KSJC, RMK>>, <<" ">>)),
              Str(Join(<<T_KSJC, <<"A", "R", "M", "K">>, T_AO2>>, <<" ">>)),
              Str(Join(<<RMK, T_AO2, RMK, T_SLP123>>, <<" ">>))}

VisCells ==
    {Str(t) : t \in Texts({"1", "0", "+", "."}, MaxVisLen)}
        \cup {Null, Str(T_abc), Str(<<"1", "0", "+">>), Str(<<"2", ".", "5">>),
              Str(<<"0", ".", "2", "5", "+">>)}

\* The columns parse_metars reads.
UsedColumns == (0..11) \cup {21} \cup (22..30) \cup {42, 43}

\* FullRow with one of the columns read null, not a number, or empty.
DamagedRows ==
    {With(FullRow, k, c) : k \in UsedColumns, c \in {Null, Str(T_abc), Str(<<>>)}}

\* Rows that differ from FullRow in one field's cells.
FieldRows ==
    DamagedRows \cup
    {With(FullRow, 7, c) : c \in HeadingCells}
        \cup {With(FullRow, 8, c) : c \in KnotCells}
        \cup {With(FullRow, 9, c) : c \in KnotCells}
        \cup {With(FullRow, 43, c) : c \in ElevCells}
        \cup {With(FullRow, 0, c) : c \in TextCells}
        \cup {With(FullRow, 10, c) : c \in VisCells}
        \cup CloudRows

\* A frame cut to its first w columns.
Narrow(frame, w) == [k \in 1..Len(frame) |-> SubSeq(frame[k], 1, w)]

\* The DataFrames handed to parse_metars: every frame of at most MaxRows
\* of the station rows, a frame of one row for each field variation, and
\* frames of fewer columns than the layout.
Frames ==
    SeqUpTo(SmallRows, MaxRows)
        \cup {<<r>> : r \in FieldRows}
        \cup {Narrow(f, w) : f \in SeqUpTo(SmallRows, 2), w \in {1, 2, 30}}

----------------------------------------------------------------------------
(* Metar::parse_metars                                                     *)

\* The variables of read_metar_file and of main, at rest.
ReadIdle == contents = <<>> /\ payload = <<>> /\ rpc = "idle"
MainIdle ==
    /\ env = <<>> /\ mpc = "idle" /\ steps = <<>> /\ files = {}
    /\ written = {} /\ result = "idle" /\ printed = <<>>

Init ==
    /\ df \in Frames
    /\ i = 0
    /\ metars = <<>>
    /\ pc = "loop"
    /\ ReadIdle
    /\ MainIdle

\* A loop iteration on a row whose station starts with "K": a Metar is
\* pushed.
PushRow ==
    /\ pc = "loop"
    /\ i < Len(df)
    /\ ~RowPanics(df[i + 1])
    /\ Accepted(str_value(Col(df[i + 1], 1)))
    /\ metars' = Append(metars, DecodeRow(df[i + 1]))
    /\ i' = i + 1
    /\ UNCHANGED <<df, pc, readVars, mainVars>>

\* A loop iteration on any other row: nothing is pushed.
SkipRow ==
    /\ pc = "loop"
    /\ i < Len(df)
    /\ ~RowPanics(df[i + 1])
    /\ ~Accepted(str_value(Col(df[i + 1], 1)))
    /\ i' = i + 1
    /\ UNCHANGED <<df, metars, pc, readVars, mainVars>>

\* A loop iteration that indexes out of bounds: the thread panics and the
\* Vec built so far is dropped.
PanicRow ==
    /\ pc = "loop"
    /\ i < Len(df)
    /\ RowPanics(df[i + 1])
    /\ pc' = "panic"
    /\ metars' = <<>>
    /\ UNCHANGED <<df, i, readVars, mainVars>>

\* Metars { conus: metars }
Return ==
    /\ pc = "loop"
    /\ i = Len(df)
    /\ pc' = "done"
    /\ UNCHANGED <<df, i, metars, readVars, mainVars>>

Next == PushRow \/ SkipRow \/ PanicRow \/ Return

Spec == Init /\ [][Next]_vars

----------------------------------------------------------------------------
(* What the claims say of a cell, stated apart from the decoder            *)

\* The digits of a text that is an optional sign and then digits.
Body(s) == IF s # <<>> /\ Head(s) \in {"+", "-"} THEN Tail(s) ELSE s

\* A text that writes an integer: an optional sign and at least one digit.
IsIntegerText(s) == Body(s) # <<>> /\ AllDigits(Body(s))

\* The integer such a text writes.
IntegerOf(s) == IF Head(s) = "-" THEN -DigitsVal(Body(s)) ELSE DigitsVal(Body(s))

\* A non-null cell that writes an integer of at most nine digits.
IsIntegerCell(c) == ~c.null /\ IsIntegerText(c.s) /\ Len(Body(c.s)) <= 9

\* The rows visited so far whose station identifier starts with "K".
IsKRow(row) ==
    /\ Len(row) >= 2
    /\ ~row[2].null
    /\ row[2].s # <<>>
    /\ row[2].s[1] = "K"

KRowsSeen == SelectSeq(SubSeq(df, 1, i), IsKRow)

\* The row the j-th record was built from.
RowOf(j) == KRowsSeen[j]

----------------------------------------------------------------------------
(* C1: parse_metars returns exactly one record per row whose station      *)
(* identifier starts with "K", none for any other row, in the order of    *)
(* the rows: whenever the loop has visited i rows without a panic, and so *)
(* when it returns, the records are, one for one and in order, the        *)
(* visited rows whose station starts with "K".                            *)
C1_OneRecordPerKRow ==
    pc # "panic" =>
        /\ Len(metars) = Len(KRowsSeen)
        /\ \A j \in 1..Len(metars) :
              /\ metars[j].station_id = RowOf(j)[2].s
              /\ metars[j].raw_text = str_value(RowOf(j)[1])

\* A returned frame of three rows, K, not K, K: two records, in row order.
C1_Witness ==
    /\ pc = "done"
    /\ Len(df) = 3
    /\ IsKRow(df[1]) /\ ~IsKRow(df[2]) /\ IsKRow(df[3])
    /\ df[1] # df[3]
    /\ Len(metars) = 2
    /\ metars[1].raw_text = str_value(df[1][1])
    /\ metars[2].raw_text = str_value(df[3][1])

----------------------------------------------------------------------------
(* C2: field-level decode problems never abort the batch: on a frame of   *)
(* the full width parse_metars never panics, whatever the cells hold; it  *)
(* returns a record for every accepted row, and a record built from an    *)
(* integer wind heading below 0 or above 360 has no cardinal label.       *)
C2_NeverAborts ==
    (\A k \in 1..Len(df) : Len(df[k]) = MaxCol + 1) =>
        /\ pc # "panic"
        /\ pc = "done" =>
              /\ Len(metars) = Len(KRowsSeen)
              /\ \A j \in 1..Len(metars) :
                    LET c == RowOf(j)[8] IN
                    (IsIntegerCell(c) /\ (IntegerOf(c.s) < 0 \/ IntegerOf(c.s) > 360))
                        => metars[j].wind_dir_cardinal = None

----------------------------------------------------------------------------

CompassPoints == <<"N", "NNE", "NE", "ENE", "E", "ESE", "SE", "SSE", "S",
                   "SSW", "SW", "WSW", "W", "WNW", "NW", "NNW", "N">>

\* The integer nearest h / 22.5: the k with |h / 22.5 - k| < 1/2 (no
\* integer h is a tie).
NearestPoint(h) == CHOOSE k \in 0..16 : Abs(4 * h - 90 * k) < 45

(* C3: the cardinal label is a function of the wind-direction cell alone: *)
(* a null cell or a cell that is no integer gives no label, "VRB" gives   *)
(* "Variable", the integer 0 gives no label, and an integer h from 1 to   *)
(* 360 gives entry round(h / 22.5) of the 17-entry table.                 *)
C3_CardinalOfCell ==
    \A j \in 1..Len(metars) :
        LET c == RowOf(j)[8]
            label == metars[j].wind_dir_cardinal
        IN  /\ c.null => label = None
            /\ (~c.null /\ c.s = T_VRB) => label = Some("Variable")
            /\ (~c.null /\ c.s # T_VRB /\ ~IsIntegerText(c.s)) => label = None
            /\ (IsIntegerCell(c) /\ IntegerOf(c.s) = 0) => label = None
            /\ (IsIntegerCell(c) /\ IntegerOf(c.s) \in 1..360)
                  => label = Some(CompassPoints[NearestPoint(IntegerOf(c.s)) + 1])

\* A returned record of heading 100 (100 / 22.5 = 4.44, entry 4) is "E".
C3_Witness ==
    /\ pc = "done"
    /\ Len(metars) = 1
    /\ RowOf(1)[8] = Str(<<"1", "0", "0">>)
    /\ metars[1].wind_dir_cardinal = Some("E")

----------------------------------------------------------------------------

PairColumns == <<22, 24, 26, 28>>

\* The pairs of a row the claim keeps, as their cover columns.
KeptPairs(row) ==
    SelectSeq(PairColumns,
              LAMBDA c : ~row[c + 1].null \/ IsIntegerCell(row[c + 2]))

(* C4: the cloud layers of a record are, in column order, exactly the     *)
(* pairs (22/23, 24/25, 26/27, 28/29) whose cover cell is non-null or     *)
(* whose base cell writes an integer, so between 0 and 4 entries; an      *)
(* entry holds its pair's cover text and base, and a pair with only the   *)
(* cover "BKN" gives an entry labelled "Broken" with no base.             *)
C4_CloudLayers ==
    \A j \in 1..Len(metars) :
        LET row == RowOf(j)
            kept == KeptPairs(row)
            clouds == metars[j].clouds
        IN  /\ Len(clouds) \in 0..4
            /\ Len(clouds) = Len(kept)
            /\ \A k \in 1..Len(clouds) :
                  LET cover == row[kept[k] + 1]
                      base == row[kept[k] + 2]
                  IN  /\ clouds[k].sky_cover =
                            (IF cover.null THEN None ELSE Some(cover.s))
                      /\ clouds[k].cloud_base_ft_agl =
                            (IF IsIntegerCell(base) THEN Some(IntegerOf(base.s))
                             ELSE None)
                      /\ (~cover.null /\ cover.s = T_BKN)
                            => clouds[k].sky_cover_label = Some("Broken")
                      /\ cover.null => clouds[k].sky_cover_label = None

\* A returned record whose row has an empty first pair, only the cover
\* "BKN" in the second, only a base in the third and an empty fourth: two
\* layers, the first "Broken" with no base.
C4_Witness ==
    /\ pc = "done"
    /\ Len(metars) = 1
    /\ RowOf(1)[23] = Null /\ RowOf(1)[24] = Null
    /\ RowOf(1)[25] = Str(T_BKN) /\ RowOf(1)[26] = Null
    /\ RowOf(1)[27] = Null /\ RowOf(1)[28] = Str(<<"1", "5">>)
    /\ RowOf(1)[29] = Null /\ RowOf(1)[30] = Str(<<"a">>)
    /\ Len(metars[1].clouds) = 2
    /\ metars[1].clouds[1].sky_cover_label = Some("Broken")
    /\ metars[1].clouds[1].cloud_base_ft_agl = None
    /\ metars[1].clouds[2].cloud_base_ft_agl = Some(15)

----------------------------------------------------------------------------

\* The whitespace-delimited tokens of a text: its maximal runs of
\* characters other than the space.
Tokens(s) == SelectSeq(Split(s, " "), LAMBDA t : t # <<>>)

(* C5: the remarks of a report text are absent when no whitespace-        *)
(* delimited token of the text is "RMK", and otherwise the tokens after   *)
(* the first token "RMK", joined with single spaces (the empty string     *)
(* when "RMK" is the last token).                                          *)
C5_RemarksOfTokens ==
    \A j \in 1..Len(metars) :
        LET c == RowOf(j)[1]
            tokens == Tokens(c.s)
            at == Position(tokens, RMK)
        IN  ~c.null =>
               metars[j].remarks =
                  (IF IsNone(at) THEN None
                   ELSE Some(Join(SubSeq(tokens, Unwrap(at) + 2, Len(tokens)),
                                  <<" ">>)))

----------------------------------------------------------------------------

\* A text "a.b" or "a" of digits with an optional sign, of at most nine
\* digits in all: a numeric cell.
IsNumberText(s) ==
    LET pieces == Split(Body(s), ".") IN
    /\ Len(pieces) \in 1..2
    /\ \A k \in 1..Len(pieces) : AllDigits(pieces[k])
    /\ Len(Body(s)) - (Len(pieces) - 1) \in 1..9

\* Its value as numerator and denominator (not reduced).
NumberOf(s) ==
    LET all == RemoveAll(Body(s), ".")
        pieces == Split(Body(s), ".")
        frac == IF Len(pieces) = 2 THEN Len(pieces[2]) ELSE 0
    IN  [n |-> IF Head(s) = "-" THEN -DigitsVal(all) ELSE DigitsVal(all),
         d |-> Pow10(frac)]

\* Equality of fractions.
SameNumber(a, b) == a.n * b.d = b.n * a.d

\* f is m * 3.28084 (= m * 82021 / 25000) rounded to the nearest integer.
IsRoundedFeet(f, m) ==
    2 * Abs(f * 25000 * m.d - m.n * 82021) < 25000 * m.d

(* C6: an elevation cell whose value is the sentinel 9999 gives a record  *)
(* with no elevation in meters and none in feet; any other numeric cell   *)
(* value m gives meters = m and feet = round(m * 3.28084); feet is absent *)
(* exactly when meters is absent.                                          *)
C6_Elevation ==
    \A j \in 1..Len(metars) :
        LET c == RowOf(j)[MaxCol + 1]
            meters == metars[j].elevation_m.val
            feet == metars[j].elevation_ft.val
        IN  /\ IsNone(feet) <=> IsNone(meters)
            /\ (~c.null /\ IsNumberText(c.s)) =>
                  IF SameNumber(NumberOf(c.s), FInt(Sentinel))
                  THEN meters = None /\ feet = None
                  ELSE /\ IsSome(meters)
                       /\ SameNumber(Unwrap(meters), NumberOf(c.s))
                       /\ IsSome(feet)
                       /\ Unwrap(feet).d = 1
                       /\ IsRoundedFeet(Unwrap(feet).n, NumberOf(c.s))

\* A returned record of the elevation cell "9999": no meters, no feet.
C6_Witness ==
    /\ pc = "done"
    /\ Len(metars) = 1
    /\ RowOf(1)[MaxCol + 1] = Str(IntStr(Sentinel))
    /\ metars[1].elevation_m.val = None
    /\ metars[1].elevation_ft.val = None

\* A returned record of the elevation cell "100": 100 m and 328 ft.
C6_WitnessFeet ==
    /\ pc = "done"
    /\ Len(metars) = 1
    /\ RowOf(1)[MaxCol + 1] = Str(<<"1", "0", "0">>)
    /\ metars[1].elevation_m.val = Some(FInt(100))
    /\ metars[1].elevation_ft.val = Some(FInt(328))

----------------------------------------------------------------------------

\* mph is h / 100 for the integer h with h <= k * 115.078 < h + 1.
IsFlooredMph(mph, k) ==
    /\ (100 * mph.n) % mph.d = 0
    /\ LET h == (100 * mph.n) \div mph.d IN
       /\ h * 1000 * k.d <= k.n * 115078
       /\ k.n * 115078 < (h + 1) * 1000 * k.d

(* C7: to_mph truncates to two decimals: a wind speed or gust of k knots  *)
(* gives floor(k * 1.15078 * 100) / 100 mph (10 kt gives 11.50), and mph  *)
(* is absent exactly when knots is absent.                                 *)
C7_KnotsToMph ==
    \A j \in 1..Len(metars) :
        \A f \in {<<metars[j].wind_speed_kt, metars[j].wind_speed_mph, RowOf(j)[9]>>,
                  <<metars[j].wind_gust_kt, metars[j].wind_gust_mph, RowOf(j)[10]>>} :
            /\ IsNone(f[2].val) <=> IsNone(f[1].val)
            /\ IsSome(f[1].val) => IsFlooredMph(Unwrap(f[2].val), Unwrap(f[1].val))
            /\ (~f[3].null /\ IsNumberText(f[3].s)) =>
                  /\ IsSome(f[1].val)
                  /\ SameNumber(Unwrap(f[1].val), NumberOf(f[3].s))

\* A returned record of the wind-speed cell "10": 11.50 mph.
C7_Witness ==
    /\ pc = "done"
    /\ Len(metars) = 1
    /\ RowOf(1)[9] = Str(<<"1", "0">>)
    /\ metars[1].wind_speed_kt.val = Some(FInt(10))
    /\ metars[1].wind_speed_mph.val = Some([n |-> 23, d |-> 2])

----------------------------------------------------------------------------

\* str::strip_suffix('+'), or the text itself.
WithoutPlusSuffix(s) ==
    IF s # <<>> /\ s[Len(s)] = "+" THEN SubSeq(s, 1, Len(s) - 1) ELSE s

(* C8: visibility decoding removes only a "+" that ends the cell: the     *)
(* field of a non-null cell is the number parsed from the cell without    *)
(* its trailing "+", and is absent when that text is no number, so "1+0"  *)
(* gives an absent field.                                                  *)
C8_VisibilitySuffix ==
    \A j \in 1..Len(metars) :
        LET c == RowOf(j)[11] IN
        ~c.null =>
            metars[j].visibility_statute_mi = ParseF64(WithoutPlusSuffix(c.s))

----------------------------------------------------------------------------
(* Metar::read_metar_file                                                  *)

NoErrors == <<"N", "o", " ", "e", "r", "r", "o", "r", "s">>

MaxLines == 7   \* the pieces between newlines of a file

\* The lines a file of the model is made of: a line holding the banner, a
\* line one letter short of it, a data line and the empty line (a file
\* ending in a newline ends in an empty piece).
FileLines == {<<"0", " ">> \o NoErrors \o <<",">>,
              <<"N", "o", " ", "e", "r", "r", "o", "r">>,
              <<"K", ",", "1">>,
              <<>>}

\* The files read: at most MaxLines pieces joined by newlines.
Files ==
    {Join(ls, <<"\n">>) : ls \in UNION {[1..k -> FileLines] : k \in 1..MaxLines}}

\* lines[0].contains("No errors")
HasBanner(text) == Contains(Split(text, "\n")[1], NoErrors)

\* &lines[5..] of fewer than five pieces: the thread panics.
HeaderPanics(text) == HasBanner(text) /\ Len(Split(text, "\n")) < 5

\* str::strip_suffix("\n").unwrap_or(&data)
StripNewline(data) ==
    IF data # <<>> /\ data[Len(data)] = "\n"
    THEN SubSeq(data, 1, Len(data) - 1)
    ELSE data

\* lines[5..].join("\n") without its last newline: what fs::write puts in
\* the file.
StripHeader(text) ==
    LET lines == Split(text, "\n") IN
    StripNewline(Join(SubSeq(lines, 6, Len(lines)), <<"\n">>))

ParseIdle == df = <<>> /\ i = 0 /\ metars = <<>> /\ pc = "idle"

InitRead ==
    /\ contents \in Files
    /\ payload = contents
    /\ rpc = "read"
    /\ ParseIdle
    /\ MainIdle

\* fs::read_to_string(path)? returns the Err.
ReadToStringFails ==
    /\ rpc = "read"
    /\ rpc' = "err"
    /\ UNCHANGED <<contents, payload, parseVars, mainVars>>

\* The banner is there and the file has at least five pieces: the file is
\* rewritten without its first five.
RewriteFile ==
    /\ rpc = "read"
    /\ HasBanner(contents)
    /\ ~HeaderPanics(contents)
    /\ payload' = StripHeader(contents)
    /\ rpc' = "reader"
    /\ UNCHANGED <<contents, parseVars, mainVars>>

\* The banner is there and fs::write(path, data)? returns the Err.
WriteFails ==
    /\ rpc = "read"
    /\ HasBanner(contents)
    /\ ~HeaderPanics(contents)
    /\ rpc' = "err"
    /\ UNCHANGED <<contents, payload, parseVars, mainVars>>

\* The banner is there and the file has fewer than five pieces.
PanicHeader ==
    /\ rpc = "read"
    /\ HeaderPanics(contents)
    /\ rpc' = "panic"
    /\ UNCHANGED <<contents, payload, parseVars, mainVars>>

\* No banner: the file is left as it is.
KeepFile ==
    /\ rpc = "read"
    /\ ~HasBanner(contents)
    /\ rpc' = "reader"
    /\ UNCHANGED <<contents, payload, parseVars, mainVars>>

\* The CSV reader takes the file, then fs::remove_file: Ok(dataframe) or
\* an Err of either.
ReaderFinish ==
    /\ rpc = "reader"
    /\ rpc' \in {"ok", "err"}
    /\ UNCHANGED <<contents, payload, parseVars, mainVars>>

NextRead ==
    \/ ReadToStringFails
    \/ RewriteFile
    \/ WriteFails
    \/ PanicHeader
    \/ KeepFile
    \/ ReaderFinish

SpecRead == InitRead /\ [][NextRead]_vars

----------------------------------------------------------------------------

RECURSIVE DropLines(_, _)
\* The text after its first n newline-ended lines (empty when it has no
\* more than n lines).
DropLines(text, n) ==
    IF n = 0 THEN text
    ELSE IF text = <<>> THEN <<>>
    ELSE IF Head(text) = "\n" THEN DropLines(Tail(text), n - 1)
    ELSE DropLines(Tail(text), n)

RECURSIVE FirstLine(_)
FirstLine(text) ==
    IF text = <<>> \/ Head(text) = "\n" THEN <<>>
    ELSE <<Head(text)>> \o FirstLine(Tail(text))

(* C9: header stripping: if the first line of the text contains           *)
(* "No errors", the tabular reader is handed the text without its first   *)
(* five lines, re-joined with newlines and without a trailing newline,    *)
(* and the step does not abort even on a text of fewer than five lines;   *)
(* otherwise the reader is handed the text unchanged.                     *)
C9_HeaderStripped ==
    /\ rpc # "panic"
    /\ rpc \in {"reader", "ok"} =>
          payload =
             (IF Contains(FirstLine(contents), NoErrors)
              THEN LET rest == DropLines(contents, 5) IN
                   IF rest # <<>> /\ rest[Len(rest)] = "\n"
                   THEN SubSeq(rest, 1, Len(rest) - 1)
                   ELSE rest
              ELSE contents)

----------------------------------------------------------------------------
(* main                                                                    *)

MaxMainRows == 2   \* rows of the frame the CSV reader returns to main

GZ == "./metars.gz"
CSV == "./metars.csv"

\* The HTTP statuses a response of the model carries.
Statuses == {200, 201, 204, 304, 404, 500}

StatusAny(status) == TRUE

\* fetch_metars goes on when resp.status() != 200 is false
StatusOk(status) == status = 200

\* The decompressed texts of the model: no banner, a banner and a row, and
\* a banner on a text of two lines.
MainTexts ==
    {<<"K", ",", "1">>,
     Join(<<NoErrors, <<>>, <<>>, <<>>, <<>>, <<"K", ",", "1">>, <<>>>>, <<"\n">>),
     Join(<<NoErrors, <<"K", ",", "1">>>>, <<"\n">>)}

InitMain ==
    /\ env \in [status : Statuses,
                text : MainTexts,
                frame : SeqUpTo(SmallRows, MaxMainRows)]
    /\ mpc = "fetch"
    /\ steps = <<>>
    /\ files \in SUBSET {GZ, CSV}
    /\ written = {}
    /\ result = "running"
    /\ printed = <<>>
    /\ ParseIdle
    /\ ReadIdle

\* The step named s has started.
Start(s) == steps' = Append(steps, [step |-> s, out |-> "running"])

\* The step named s has run to the outcome out.
Ran(s, out) == steps' = Append(steps, [step |-> s, out |-> out])

\* main's `?`: the Err of a step is main's result.
Fail ==
    /\ result' = "err"
    /\ mpc' = "exit"

\* Metar::fetch_metars().await?
Fetch ==
    /\ mpc = "fetch"
    /\ \E io \in {"get_err", "create_err", "copy_err", "ok"} :
          IF io = "get_err" \/ ~StatusOk(env.status) \/ io = "create_err"
          THEN \* reqwest::get, the status check or File::create returns Err
               /\ Ran("fetch", "err")
               /\ Fail
               /\ UNCHANGED <<files, written>>
          ELSE /\ files' = files \cup {GZ}
               /\ written' = written \cup {GZ}
               /\ IF io = "copy_err"
                  THEN Ran("fetch", "err") /\ Fail
                  ELSE /\ Ran("fetch", "ok")
                       /\ mpc' = "extract"
                       /\ UNCHANGED result
    /\ UNCHANGED <<env, printed, parseVars, readVars>>

\* Metar::extract_metar_file("./metars.gz")?
Extract ==
    /\ mpc = "extract"
    /\ \E io \in {"open_err", "create_err", "copy_err", "remove_err", "ok"} :
          IF io \in {"open_err", "create_err"}
          THEN /\ Ran("extract", "err")
               /\ Fail
               /\ UNCHANGED <<files, written>>
          ELSE /\ written' = written \cup {CSV}
               /\ IF io = "ok"
                  THEN /\ files' = (files \cup {CSV}) \ {GZ}
                       /\ Ran("extract", "ok")
                       /\ mpc' = "read"
                       /\ UNCHANGED result
                  ELSE /\ files' = files \cup {CSV}
                       /\ Ran("extract", "err")
                       /\ Fail
    /\ UNCHANGED <<env, printed, parseVars, readVars>>

\* Metar::read_metar_file("./metars.csv")?
Read ==
    /\ mpc = "read"
    /\ \E io \in {"read_err", "csv_err", "remove_err", "ok"}
                  \cup (IF HasBanner(env.text) THEN {"write_err"} ELSE {}) :
          IF io = "read_err"
          THEN Ran("read", "err") /\ Fail /\ UNCHANGED <<files, written>>
          ELSE IF HeaderPanics(env.text)
          THEN /\ Ran("read", "panic")
               /\ result' = "panic"
               /\ mpc' = "exit"
               /\ UNCHANGED <<files, written>>
          ELSE IF io \in {"write_err", "csv_err", "remove_err"}
          THEN \* fs::write, the CSV reader or fs::remove_file returns Err
               Ran("read", "err") /\ Fail /\ UNCHANGED <<files, written>>
          ELSE /\ files' = files \ {CSV}
               /\ Ran("read", "ok")
               /\ mpc' = "parse"
               /\ UNCHANGED <<result, written>>
    /\ UNCHANGED <<env, printed, parseVars, readVars>>

\* Metar::parse_metars(&dataframe) is entered; the row loop's actions run
\* it.
CallParse ==
    /\ mpc = "parse"
    /\ df' = env.frame
    /\ i' = 0
    /\ metars' = <<>>
    /\ pc' = "loop"
    /\ Start("parse")
    /\ mpc' = "parsing"
    /\ UNCHANGED <<env, files, written, result, printed, readVars>>

\* parse_metars has returned.
ParseReturns ==
    /\ mpc = "parsing"
    /\ pc = "done"
    /\ steps' = [steps EXCEPT ![Len(steps)].out = "ok"]
    /\ mpc' = "print"
    /\ UNCHANGED <<env, files, written, result, printed, parseVars, readVars>>

\* parse_metars has panicked: main unwinds.
ParsePanics ==
    /\ mpc = "parsing"
    /\ pc = "panic"
    /\ steps' = [steps EXCEPT ![Len(steps)].out = "panic"]
    /\ result' = "panic"
    /\ mpc' = "exit"
    /\ UNCHANGED <<env, files, written, printed, parseVars, readVars>>

\* for metar in metars.conus: the records of station KSJC are printed;
\* Ok(()).
PrintRecords ==
    /\ mpc = "print"
    /\ printed' = SelectSeq(metars, LAMBDA m : m.station_id = T_KSJC)
    /\ Ran("print", "ok")
    /\ result' = "ok"
    /\ mpc' = "exit"
    /\ UNCHANGED <<env, files, written, parseVars, readVars>>

NextMain ==
    \/ Fetch
    \/ Extract
    \/ Read
    \/ CallParse
    \/ PushRow
    \/ SkipRow
    \/ PanicRow
    \/ Return
    \/ ParseReturns
    \/ ParsePanics
    \/ PrintRecords

SpecMain == InitMain /\ [][NextMain]_vars

----------------------------------------------------------------------------

StepOrder == <<"fetch", "extract", "read", "parse", "print">>

\* The staging files a step writes.
WritesOf(s) ==
    CASE s = "fetch" -> {GZ}
      [] s \in {"extract", "read"} -> {CSV}
      [] OTHER -> {}

\* A success status of HTTP: 2xx.
IsSuccess(status) == status \in 200..299

\* The rows of the frame whose records main emits.
EmittedRows == SelectSeq(env.frame, LAMBDA row : row[2] = Str(T_KSJC))

(* C10: the pipeline runs retrieval, decompression, header-stripping read *)
(* and decoding in that order, each step starting only after the one      *)
(* before it succeeded; when the HTTP status is no success status or a    *)
(* later step fails, the run ends in one terminal error with no later     *)
(* step run, no staging file written by a later step and no record        *)
(* emitted; a run ends with the complete record sequence or with one      *)
(* terminal error, never with a part of the sequence.                     *)
C10_PipelineOrder ==
    /\ Len(steps) <= Len(StepOrder)
    /\ \A k \in 1..Len(steps) : steps[k].step = StepOrder[k]
    /\ \A k \in 1..(Len(steps) - 1) : steps[k].out = "ok"
    /\ written \subseteq UNION {WritesOf(steps[k].step) : k \in 1..Len(steps)}
    /\ ~IsSuccess(env.status) =>
          /\ Len(steps) <= 1
          /\ written = {}
          /\ result \in {"running", "err"}
    /\ result = "running" => mpc # "exit" /\ printed = <<>>
    /\ result \in {"err", "panic"} =>
          /\ mpc = "exit"
          /\ printed = <<>>
          /\ steps # <<>>
          /\ steps[Len(steps)].out = result
    /\ result = "ok" =>
          /\ mpc = "exit"
          /\ Len(steps) = Len(StepOrder)
          /\ steps[Len(steps)].out = "ok"
          /\ Len(printed) = Len(EmittedRows)
          /\ \A j \in 1..Len(printed) :
                printed[j].raw_text = str_value(EmittedRows[j][1])

\* A run ended by the status 404: one error, only fetch run, no file
\* written, nothing printed.
C10_Witness ==
    /\ env.status = 404
    /\ mpc = "exit"
    /\ result = "err"
    /\ Len(steps) = 1
    /\ written = {}
    /\ printed = <<>>

\* A run ended by a failure of the read step, after fetch and extract.
C10_WitnessLater ==
    /\ mpc = "exit"
    /\ result = "err"
    /\ Len(steps) = 3
    /\ written = {GZ, CSV}
    /\ printed = <<>>

\* A run that ended with two records printed.
C10_WitnessOk ==
    /\ mpc = "exit"
    /\ result = "ok"
    /\ Len(printed) = 2

=============================================================================
